---- MODULE Spec2Model ----
(***************************************************************************)
(* A model of the PVL label scanner of src/src/main.rs: the PvlReader      *)
(* cursor over an immutable text buffer, the comment skipper, the symbol   *)
(* and value readers, the driving loop of main, and the Value classifier   *)
(* with its typed accessors.                                               *)
(*                                                                         *)
(* Characters are one-character strings and a text is a sequence of them.  *)
(* Rust offsets are 0-based: the byte at offset i of text c is c[i + 1].   *)
(* A call's outcome is a record [tag, val]: tag "Ok" or "Err" for the two  *)
(* sides of a Result, and "Panic" for an unwrap() of an Err, an            *)
(* out-of-range slice or an arithmetic underflow, all of which abort the   *)
(* process.  Operations that move the cursor also give the position they   *)
(* leave it at.                                                            *)
(***************************************************************************)
EXTENDS Integers, Sequences, FiniteSets, TLC

VARIABLES
    content,    \* PvlReader.content, the text buffer
    pos,        \* PvlReader.pos, the cursor
    alive,      \* FALSE once a call has panicked
    lastOp,     \* the operation called last ("new" after construction)
    lastArg,    \* its integer argument (0 when it has none)
    lastRes,    \* what it returned: [tag, val]
    prePos,     \* the cursor when it was called
    pc,         \* the driving loop of main: "idle", "loop", "done"
    out,        \* the key-value pairs main has printed
    calls,      \* the positions at which main called read_key_value_pair_raw
    value       \* a Value: [value_raw, value_type]

vars == <<content, pos, alive, lastOp, lastArg, lastRes, prePos, pc, out, calls, value>>

-----------------------------------------------------------------------------
(* Results *)

Ok(v) == [tag |-> "Ok", val |-> v]
Err(e) == [tag |-> "Err", val |-> e]
Panicked == [tag |-> "Panic", val |-> "panic"]

OkAt(v, p) == [tag |-> "Ok", val |-> v, pos |-> p]
ErrAt(e, p) == [tag |-> "Err", val |-> e, pos |-> p]
PanicAt(p) == [tag |-> "Panic", val |-> "panic", pos |-> p]

-----------------------------------------------------------------------------
(* Text helpers *)

\* the characters str::trim removes, among those the buffers are made of
WhiteSpace == {" ", "\t", "\n", "\r"}

RECURSIVE TrimStart(_)
TrimStart(s) ==
    IF s # <<>> /\ Head(s) \in WhiteSpace THEN TrimStart(Tail(s)) ELSE s

RECURSIVE TrimEnd(_)
TrimEnd(s) ==
    IF s # <<>> /\ s[Len(s)] \in WhiteSpace
    THEN TrimEnd(SubSeq(s, 1, Len(s) - 1))
    ELSE s

\* str::trim
Trim(s) == TrimEnd(TrimStart(s))

\* the width of the leading blank run that marks a continuation line
ContinuationWidth == 37

\* the literal of 37 spaces that a continuation line is compared with
ContinuationPrefix == [i \in 1..ContinuationWidth |-> " "]

-----------------------------------------------------------------------------
(* The cursor *)

char_at(c, indx) ==
    IF indx >= Len(c) THEN Err("Eof") ELSE Ok(c[indx + 1])

char_at_pos_plus_n(c, p, indx) ==
    IF p + indx >= Len(c) THEN Err("Eof") ELSE Ok(c[p + indx + 1])

current_char(c, p) == char_at(c, p)

peek_char(c, p) == char_at(c, p + 1)

\* pos += 1 comes first and is kept whatever current_char then answers
next(c, p) ==
    LET r == current_char(c, p + 1)
    IN  [tag |-> r.tag, val |-> r.val, pos |-> p + 1]

is_eof(c, p) == p >= Len(c)

\* A usize is held as an integer congruent to it modulo 2^w, w the width of
\* usize: the value itself, or, for a value within a few of the top of the
\* range, the value less 2^w (usize::MAX is -1).  A sum of a position and
\* such a number overflows when the number is negative and the sum is not.
usize_overflows(p, n) == n < 0 /\ p + n >= 0

\* pos + num_chars >= len, on the wrapped sum
usize_sum_reaches(p, n, len) == IF p + n < 0 THEN TRUE ELSE p + n >= len

\* jump; overflow_checks tells whether the build aborts on an overflowing
\* addition (a debug build) or wraps it (a release build)
jump_with(c, p, num_chars, overflow_checks) ==
    IF is_eof(c, p)
    THEN ErrAt("Eof", p)
    ELSE IF usize_overflows(p, num_chars) /\ overflow_checks
    THEN PanicAt(p)
    ELSE LET do_num_chars ==
                 IF usize_sum_reaches(p, num_chars, Len(c))
                 THEN Len(c) - p
                 ELSE num_chars
         IN  OkAt(TRUE, p + do_num_chars)

\* jump by a small number, where no addition overflows
jump(c, p, num_chars) == jump_with(c, p, num_chars, FALSE)

is_at_line_start(c, p) ==
    IF p > 0 /\ p - 1 > Len(c)
    THEN Err("Eof")
    ELSE IF p = 0
         THEN Ok(TRUE)
         ELSE LET r == char_at(c, p - 1)
              IN  IF r.tag # "Ok" THEN Panicked
                  ELSE Ok(r.val \in {"\r", "\n"})

-----------------------------------------------------------------------------
(* The comment skipper *)

\* the probe without its test for the end of the buffer
is_at_multiline_comment_start_unguarded(c, p) ==
    LET cc == current_char(c, p)
        n == peek_char(c, p)
    IN  IF cc.tag # "Ok" \/ n.tag # "Ok" THEN Panicked
        ELSE Ok(cc.val = "/" /\ n.val = "*")

is_at_multiline_comment_start(c, p) ==
    IF is_eof(c, p) \/ p + 1 >= Len(c)
    THEN Ok(FALSE)
    ELSE LET cc == current_char(c, p)
             n == peek_char(c, p)
         IN  IF cc.tag # "Ok" \/ n.tag # "Ok" THEN Panicked
             ELSE Ok(cc.val = "/" /\ n.val = "*")

is_at_multiline_comment_end(c, p) ==
    IF p + 1 >= Len(c)
    THEN Ok(FALSE)
    ELSE LET cc == current_char(c, p)
             n == peek_char(c, p)
         IN  IF cc.tag # "Ok" \/ n.tag # "Ok" THEN Panicked
             ELSE Ok(cc.val = "*" /\ n.val = "/")

\* the while loop of skip_multiline_comment: the text pushed so far and the
\* cursor, until the cursor is at a comment end
RECURSIVE comment_scan(_, _, _)
comment_scan(c, p, text) ==
    LET e == is_at_multiline_comment_end(c, p)
    IN  IF e.tag # "Ok" THEN PanicAt(p)
        ELSE IF e.val THEN OkAt(text, p)
        ELSE LET n == next(c, p)
             IN  IF n.tag # "Ok" THEN PanicAt(n.pos)
                 ELSE comment_scan(c, n.pos, Append(text, n.val))

\* comment_text[1..(comment_text.len() - 2)]: the subtraction underflows
\* below 2 and the slice is out of order at 2; both abort
comment_slice(text) ==
    IF Len(text) < 2 \/ 1 > Len(text) - 2
    THEN Panicked
    ELSE Ok(SubSeq(text, 2, Len(text) - 2))

skip_multiline_comment(c, p) ==
    LET s == is_at_multiline_comment_start(c, p)
    IN  IF s.tag # "Ok" THEN PanicAt(p)
        ELSE IF ~s.val THEN ErrAt("CommentIsntComment", p)
        ELSE LET l == comment_scan(c, p, <<>>)
             IN  IF l.tag # "Ok" THEN l
                 ELSE LET j == jump(c, l.pos, 2)
                          t == comment_slice(l.val)
                      IN  IF j.tag # "Ok" THEN PanicAt(j.pos)
                          ELSE IF t.tag # "Ok" THEN PanicAt(j.pos)
                          ELSE OkAt(t.val, j.pos)

-----------------------------------------------------------------------------
(* Keyword and separator probes *)

is_at_pointer(c, p) ==
    LET r == current_char(c, p)
    IN  IF r.tag = "Ok" THEN Ok(r.val = "^") ELSE r

is_at_equals(c, p) ==
    LET r == current_char(c, p)
    IN  IF r.tag = "Ok" THEN Ok(r.val = "=") ELSE r

\* the five characters is_at_group and is_at_object push: each is
\* char_at_pos_plus_n(self.pos + k), which reads offset pos + (pos + k)
keyword_chars(c, p) ==
    [k \in 1..5 |-> char_at_pos_plus_n(c, p, p + (k - 1))]

is_at_group(c, p) ==
    IF p + 5 >= Len(c)
    THEN Err("Eof")
    ELSE LET s == keyword_chars(c, p)
         IN  IF \E k \in 1..5 : s[k].tag # "Ok" THEN Panicked
             ELSE Ok([k \in 1..5 |-> s[k].val] = <<"G", "R", "O", "U", "P">>)

is_at_object(c, p) ==
    IF p + 5 >= Len(c)
    THEN Err("Eof")
    ELSE LET s == keyword_chars(c, p)
         IN  IF \E k \in 1..5 : s[k].tag # "Ok" THEN Panicked
             ELSE Ok([k \in 1..5 |-> s[k].val] = <<"O", "B", "J", "E", "C", "T">>)

is_at_value_line_continuation(c, p) ==
    LET s == is_at_line_start(c, p)
    IN  IF s.tag # "Ok" THEN Panicked
        ELSE IF ~s.val THEN Ok(FALSE)
        ELSE IF p + ContinuationWidth >= Len(c) THEN Err("Eof")
        ELSE Ok(SubSeq(c, p + 1, p + ContinuationWidth) = ContinuationPrefix)

-----------------------------------------------------------------------------
(* The Value classifier *)

Digits == {"0", "1", "2", "3", "4", "5", "6", "7", "8", "9"}

Letters == {"a", "b", "c", "x", "A", "B", "C", "E", "F", "G", "J", "K", "L",
            "O", "P", "R", "S", "T", "U", "V"}

\* every character of s from offset i (1-based, inclusive) to j is in set
AllIn(s, i, j, set) == \A k \in i..j : s[k] \in set

\* ^"(TRUE|FALSE)"$
BOOL_DETERMINATE(s) ==
    \/ s = <<"\"", "T", "R", "U", "E", "\"">>
    \/ s = <<"\"", "F", "A", "L", "S", "E", "\"">>

\* ^".*"$ : the dot matches no line feed
STRING_DETERMINATE(s) ==
    /\ Len(s) >= 2
    /\ s[1] = "\""
    /\ s[Len(s)] = "\""
    /\ \A k \in 2..(Len(s) - 1) : s[k] # "\n"

\* ^\(.*\)$
ARRAY_DETERMINATE(s) ==
    /\ Len(s) >= 2
    /\ s[1] = "("
    /\ s[Len(s)] = ")"
    /\ \A k \in 2..(Len(s) - 1) : s[k] # "\n"

\* ^-*[0-9]+\.[0-9][ ]* : a prefix of s, nothing is asked of what follows
FLOAT_DETERMINATE(s) ==
    \E a \in 0..Len(s), b \in 1..Len(s) :
        /\ a + b + 2 <= Len(s)
        /\ AllIn(s, 1, a, {"-"})
        /\ AllIn(s, a + 1, a + b, Digits)
        /\ s[a + b + 1] = "."
        /\ s[a + b + 2] \in Digits

\* ^-*[0-9]+[^#]+[ ]* : a prefix of s; a minuses, b digits, then d characters
\* other than '#' (digits among them)
INTEGER_DETERMINATE(s) ==
    \E a \in 0..Len(s), b \in 1..Len(s), d \in 1..Len(s) :
        /\ a + b + d <= Len(s)
        /\ AllIn(s, 1, a, {"-"})
        /\ AllIn(s, a + 1, a + b, Digits)
        /\ \A k \in (a + b + 1)..(a + b + d) : s[k] # "#"

\* ^[a-zA-Z_]+[a-zA-Z0-9]+$
FLAG_DETERMINATE(s) ==
    \E a \in 1..Len(s) :
        /\ a < Len(s)
        /\ AllIn(s, 1, a, Letters \cup {"_"})
        /\ AllIn(s, a + 1, Len(s), Letters \cup Digits)

\* ^[1-8]*#[0-1]+#$
BITMASK_DETERMINATE(s) ==
    \E a \in 0..Len(s) :
        /\ a + 3 <= Len(s)
        /\ AllIn(s, 1, a, {"1", "2", "3", "4", "5", "6", "7", "8"})
        /\ s[a + 1] = "#"
        /\ AllIn(s, a + 2, Len(s) - 1, {"0", "1"})
        /\ s[Len(s)] = "#"

\* the classifier with the string rule tried before the boolean rule
determine_type_string_first(value_raw) ==
    IF STRING_DETERMINATE(value_raw) THEN "String"
    ELSE IF BOOL_DETERMINATE(value_raw) THEN "Bool"
    ELSE IF ARRAY_DETERMINATE(value_raw) THEN "Array"
    ELSE IF FLOAT_DETERMINATE(value_raw) THEN "Float"
    ELSE IF INTEGER_DETERMINATE(value_raw) THEN "Integer"
    ELSE IF FLAG_DETERMINATE(value_raw) THEN "Flag"
    ELSE IF BITMASK_DETERMINATE(value_raw) THEN "BitMask"
    ELSE "Undetermined"

determine_type(value_raw) ==
    IF BOOL_DETERMINATE(value_raw) THEN "Bool"
    ELSE IF STRING_DETERMINATE(value_raw) THEN "String"
    ELSE IF ARRAY_DETERMINATE(value_raw) THEN "Array"
    ELSE IF FLOAT_DETERMINATE(value_raw) THEN "Float"
    ELSE IF INTEGER_DETERMINATE(value_raw) THEN "Integer"
    ELSE IF FLAG_DETERMINATE(value_raw) THEN "Flag"
    ELSE IF BITMASK_DETERMINATE(value_raw) THEN "BitMask"
    ELSE "Undetermined"

\* Value::new
new_value(value_raw) ==
    [value_raw |-> value_raw, value_type |-> determine_type(value_raw)]

\* str::split(","): the pieces between the commas of s, empty ones kept
RECURSIVE split_comma(_, _)
split_comma(s, piece) ==
    IF s = <<>> THEN <<piece>>
    ELSE IF Head(s) = "," THEN <<piece>> \o split_comma(Tail(s), <<>>)
    ELSE split_comma(Tail(s), Append(piece, Head(s)))

parse_array(v) ==
    IF v.value_type # "Array"
    THEN Err("InvalidType")
    ELSE LET pieces == split_comma(v.value_raw, <<>>)
         IN  Ok([k \in 1..Len(pieces) |-> new_value(pieces[k])])

-----------------------------------------------------------------------------
(* The typed accessors of a Value *)

\* a decimal digit as a number
DigitValue(ch) ==
    CHOOSE n \in 0..9 :
        <<"0", "1", "2", "3", "4", "5", "6", "7", "8", "9">>[n + 1] = ch

\* digits without their leading zeros; a lone zero is kept
RECURSIVE StripZeros(_)
StripZeros(d) ==
    IF Len(d) > 1 /\ Head(d) = "0" THEN StripZeros(Tail(d)) ELSE d

\* a <= b for two digit sequences without leading zeros
DigitsLeq(a, b) ==
    \/ Len(a) < Len(b)
    \/ /\ Len(a) = Len(b)
       /\ \/ a = b
          \/ \E k \in 1..Len(a) :
                /\ \A j \in 1..(k - 1) : a[j] = b[j]
                /\ DigitValue(a[k]) < DigitValue(b[k])

\* the largest magnitudes of the integer types, as digits
MaxU8 == <<"2", "5", "5">>
MaxU16 == <<"6", "5", "5", "3", "5">>
MaxU32 == <<"4", "2", "9", "4", "9", "6", "7", "2", "9", "5">>
MaxU64 ==
    <<"1", "8", "4", "4", "6", "7", "4", "4", "0", "7",
      "3", "7", "0", "9", "5", "5", "1", "6", "1", "5">>
MaxI8 == <<"1", "2", "7">>
MinI8 == <<"1", "2", "8">>
MaxI16 == <<"3", "2", "7", "6", "7">>
MinI16 == <<"3", "2", "7", "6", "8">>
MaxI32 == <<"2", "1", "4", "7", "4", "8", "3", "6", "4", "7">>
MinI32 == <<"2", "1", "4", "7", "4", "8", "3", "6", "4", "8">>
MaxI64 ==
    <<"9", "2", "2", "3", "3", "7", "2", "0", "3", "6",
      "8", "5", "4", "7", "7", "5", "8", "0", "7">>
MinI64 ==
    <<"9", "2", "2", "3", "3", "7", "2", "0", "3", "6",
      "8", "5", "4", "7", "7", "5", "8", "0", "8">>

\* an integer: its sign and the digits of its magnitude
IntegerValue(neg, digits) ==
    [neg |-> neg /\ StripZeros(digits) # <<"0">>, digits |-> StripZeros(digits)]

\* str::parse of an unsigned integer type: an optional plus sign, then one or
\* more digits, of a magnitude up to max
from_str_unsigned(s, max) ==
    LET body == IF s # <<>> /\ Head(s) = "+" THEN Tail(s) ELSE s
    IN  IF body = <<>> \/ ~AllIn(body, 1, Len(body), Digits)
        THEN Err("ValueTypeParseError")
        ELSE IF ~DigitsLeq(StripZeros(body), max)
        THEN Err("ValueTypeParseError")
        ELSE Ok(IntegerValue(FALSE, body))

\* str::parse of a signed integer type: an optional sign, then one or more
\* digits, of a magnitude up to max, or up to min under a minus sign
from_str_signed(s, min, max) ==
    LET signed == s # <<>> /\ Head(s) \in {"+", "-"}
        neg == s # <<>> /\ Head(s) = "-"
        body == IF signed THEN Tail(s) ELSE s
    IN  IF body = <<>> \/ ~AllIn(body, 1, Len(body), Digits)
        THEN Err("ValueTypeParseError")
        ELSE IF ~DigitsLeq(StripZeros(body), IF neg THEN min ELSE max)
        THEN Err("ValueTypeParseError")
        ELSE Ok(IntegerValue(neg, body))

\* the offsets of s that hold a character of set
OffsetsOf(s, set) == { k \in 1..Len(s) : s[k] \in set }

\* the least offset of s that holds a character of set, Len(s) + 1 if none
FirstOffsetOf(s, set) ==
    IF OffsetsOf(s, set) = {} THEN Len(s) + 1
    ELSE CHOOSE k \in OffsetsOf(s, set) : \A j \in OffsetsOf(s, set) : k <= j

\* digits without their trailing zeros
RECURSIVE StripTrailingZeros(_)
StripTrailingZeros(d) ==
    IF d # <<>> /\ d[Len(d)] = "0"
    THEN StripTrailingZeros(SubSeq(d, 1, Len(d) - 1))
    ELSE d

\* str::parse of f32 and of f64 on decimal text: an optional sign, digits
\* with at most one point and at least one digit, and an optional exponent
\* of 'e' or 'E', an optional sign and one or more digits; the whole text
\* is consumed.  The value is given as the decimal the text denotes (the
\* float returned is the one nearest to it; too large a magnitude gives an
\* infinity, not an error).
from_str_float(s) ==
    LET signed == s # <<>> /\ Head(s) \in {"+", "-"}
        body == IF signed THEN Tail(s) ELSE s
        epos == FirstOffsetOf(body, {"e", "E"})
        mant == SubSeq(body, 1, epos - 1)
        dot == FirstOffsetOf(mant, {"."})
        int == SubSeq(mant, 1, dot - 1)
        frac == SubSeq(mant, dot + 1, Len(mant))
        expo == SubSeq(body, epos + 1, Len(body))
        esigned == expo # <<>> /\ Head(expo) \in {"+", "-"}
        edigits == IF esigned THEN Tail(expo) ELSE expo
        mantOk == /\ AllIn(int, 1, Len(int), Digits)
                  /\ AllIn(frac, 1, Len(frac), Digits)
                  /\ Len(int) + Len(frac) >= 1
        expOk == \/ epos > Len(body)
                 \/ /\ edigits # <<>>
                    /\ AllIn(edigits, 1, Len(edigits), Digits)
    IN  IF mantOk /\ expOk
        THEN Ok([neg |-> signed /\ Head(s) = "-",
                 int |-> StripZeros(IF int = <<>> THEN <<"0">> ELSE int),
                 frac |-> StripTrailingZeros(frac),
                 exp |-> IF epos > Len(body)
                         THEN IntegerValue(FALSE, <<"0">>)
                         ELSE IntegerValue(esigned /\ Head(expo) = "-", edigits)])
        ELSE Err("ValueTypeParseError")

\* str::parse of bool: the texts true and false, nothing else
from_str_bool(s) ==
    IF s = <<"t", "r", "u", "e">> THEN Ok(TRUE)
    ELSE IF s = <<"f", "a", "l", "s", "e">> THEN Ok(FALSE)
    ELSE Err("ValueTypeParseError")

parse_f32(v) ==
    IF v.value_type # "Float" THEN Err("InvalidType")
    ELSE from_str_float(v.value_raw)

parse_f64(v) ==
    IF v.value_type # "Float" THEN Err("InvalidType")
    ELSE from_str_float(v.value_raw)

parse_u8(v) ==
    IF v.value_type # "Integer" THEN Err("InvalidType")
    ELSE from_str_unsigned(v.value_raw, MaxU8)

parse_u16(v) ==
    IF v.value_type # "Integer" THEN Err("InvalidType")
    ELSE from_str_unsigned(v.value_raw, MaxU16)

\* parse_u32 with the type tag of the float accessors
parse_u32_float_tag(v) ==
    IF v.value_type # "Float" THEN Err("InvalidType")
    ELSE from_str_unsigned(v.value_raw, MaxU32)

parse_u32(v) ==
    IF v.value_type # "Integer" THEN Err("InvalidType")
    ELSE from_str_unsigned(v.value_raw, MaxU32)

parse_u64(v) ==
    IF v.value_type # "Integer" THEN Err("InvalidType")
    ELSE from_str_unsigned(v.value_raw, MaxU64)

parse_i8(v) ==
    IF v.value_type # "Integer" THEN Err("InvalidType")
    ELSE from_str_signed(v.value_raw, MinI8, MaxI8)

parse_i16(v) ==
    IF v.value_type # "Integer" THEN Err("InvalidType")
    ELSE from_str_signed(v.value_raw, MinI16, MaxI16)

parse_i32(v) ==
    IF v.value_type # "Integer" THEN Err("InvalidType")
    ELSE from_str_signed(v.value_raw, MinI32, MaxI32)

parse_i64(v) ==
    IF v.value_type # "Integer" THEN Err("InvalidType")
    ELSE from_str_signed(v.value_raw, MinI64, MaxI64)

parse_bool(v) ==
    IF v.value_type # "Bool" THEN Err("InvalidType")
    ELSE from_str_bool(v.value_raw)

\* the string value as it is
parse_string(v) ==
    IF v.value_type # "String" THEN Err("InvalidType")
    ELSE Ok(v.value_raw)

\* the flag value as it is
parse_flag(v) ==
    IF v.value_type # "Flag" THEN Err("InvalidType")
    ELSE Ok(v.value_raw)

-----------------------------------------------------------------------------

(* The symbol reader and the value reader *)

\* the while loop of read_symbol: the text pushed so far and the cursor
RECURSIVE symbol_scan(_, _, _)
symbol_scan(c, p, text) ==
    IF is_eof(c, p) THEN OkAt(text, p)
    ELSE LET cc == current_char(c, p)
         IN  IF cc.tag # "Ok" THEN PanicAt(p)
             ELSE IF cc.val \in {"\n", "\r", "="} THEN OkAt(text, p)
             ELSE LET n == next(c, p)
                  IN  IF n.tag # "Ok" THEN PanicAt(n.pos)
                      ELSE symbol_scan(c, n.pos, Append(text, cc.val))

\* the classification with the caret of a pointer left out of its value
classify_symbol_caret_dropped(symbol_text) ==
    IF Len(symbol_text) = 0 THEN [kind |-> "BlankLine", name |-> <<>>]
    ELSE IF symbol_text[1] = "^"
         THEN [kind |-> "Pointer", name |-> Tail(symbol_text)]
    ELSE IF symbol_text = <<"G", "R", "O", "U", "P">>
         THEN [kind |-> "Group", name |-> <<>>]
    ELSE IF symbol_text = <<"O", "B", "J", "E", "C", "T">>
         THEN [kind |-> "Object", name |-> <<>>]
    ELSE [kind |-> "Key", name |-> symbol_text]

classify_symbol(symbol_text) ==
    IF Len(symbol_text) = 0 THEN [kind |-> "BlankLine", name |-> <<>>]
    ELSE IF symbol_text[1] = "^" THEN [kind |-> "Pointer", name |-> symbol_text]
    ELSE IF symbol_text = <<"G", "R", "O", "U", "P">>
         THEN [kind |-> "Group", name |-> <<>>]
    ELSE IF symbol_text = <<"O", "B", "J", "E", "C", "T">>
         THEN [kind |-> "Object", name |-> <<>>]
    ELSE [kind |-> "Key", name |-> symbol_text]

read_symbol(c, p) ==
    LET v == is_at_value_line_continuation(c, p)
        s == is_at_line_start(c, p)
    IN  IF v.tag # "Ok" THEN PanicAt(p)
        ELSE IF v.val THEN ErrAt("Syntax", p)
        ELSE IF s.tag # "Ok" THEN PanicAt(p)
        ELSE IF ~s.val THEN ErrAt("Programming", p)
        ELSE LET l == symbol_scan(c, p, <<>>)
             IN  IF l.tag # "Ok" THEN l
                 ELSE OkAt(classify_symbol(Trim(l.val)), l.pos)

\* the while loop of read_remaining_line
RECURSIVE line_scan(_, _, _)
line_scan(c, p, text) ==
    IF is_eof(c, p) THEN OkAt(text, p)
    ELSE LET e == current_char(c, p)
             j == IF e.tag = "Ok" /\ e.val = "=" THEN jump(c, p, 2) ELSE OkAt(TRUE, p)
             cc == current_char(c, j.pos)
         IN  IF e.tag # "Ok" \/ j.tag # "Ok" THEN PanicAt(j.pos)
             ELSE IF cc.tag # "Ok" THEN PanicAt(j.pos)
             ELSE IF cc.val \in {"\n", "\r"} THEN OkAt(text, j.pos)
             ELSE LET q == IF ~is_eof(c, j.pos) THEN next(c, j.pos).pos ELSE j.pos
                  IN  line_scan(c, q, Append(text, cc.val))

read_remaining_line(c, p) ==
    LET l == line_scan(c, p, <<>>)
    IN  IF l.tag # "Ok" THEN l ELSE OkAt(Trim(l.val), l.pos)

\* the while-let loop of read_key_value_pair_raw: it ends when
\* is_at_value_line_continuation answers an Err or Ok(false)
RECURSIVE continuation_scan(_, _, _)
continuation_scan(c, p, value_string) ==
    LET v == is_at_value_line_continuation(c, p)
    IN  IF v.tag = "Panic" THEN PanicAt(p)
        ELSE IF v.tag = "Err" THEN OkAt(value_string, p)
        ELSE IF ~v.val THEN OkAt(value_string, p)
        ELSE LET r == read_remaining_line(c, p)
             IN  IF r.tag # "Ok" THEN PanicAt(r.pos)
                 ELSE continuation_scan(c, next(c, r.pos).pos, value_string \o r.val)

read_key_value_pair_raw(c, p) ==
    LET v == is_at_value_line_continuation(c, p)
        s == is_at_line_start(c, p)
    IN  IF v.tag # "Ok" THEN PanicAt(p)
        ELSE IF v.val THEN ErrAt("Syntax", p)
        ELSE IF s.tag # "Ok" THEN PanicAt(p)
        ELSE IF ~s.val THEN ErrAt("Programming", p)
        ELSE LET key_res == read_symbol(c, p)
                 r == IF key_res.tag = "Panic" THEN key_res
                      ELSE read_remaining_line(c, key_res.pos)
                 l == IF r.tag # "Ok" THEN PanicAt(r.pos)
                      ELSE continuation_scan(c, next(c, r.pos).pos, r.val)
             IN  IF l.tag # "Ok" THEN l
                 ELSE IF key_res.tag # "Ok" THEN PanicAt(l.pos)
                 ELSE OkAt([key |-> key_res.val, value |-> new_value(l.val)], l.pos)

-----------------------------------------------------------------------------
(* Inputs *)

\* every text over the characters of S of at most n characters
SeqsUpTo(S, n) == UNION {[1..k -> S] : k \in 0..n}

\* n copies of the character ch
Run(ch, n) == [i \in 1..n |-> ch]

\* the longest comment interior of the cursor buffers
MaxInterior == 2

\* how far past the end of the buffer the client lets next() take the cursor
MaxOverrun == 2

\* the largest argument the client gives jump
MaxJump == 3

\* the most continuation lines that follow a value line
MaxCont == 1

CommentInteriors == SeqsUpTo({"a", " ", "*", "/"}, MaxInterior)

\* a comment opening after nothing or a line feed, an interior, with or without
\* its closing, then nothing or a line feed
CommentBuffers ==
    { pre \o <<"/", "*">> \o mid \o close \o post :
        pre \in {<<>>, <<"\n">>},
        mid \in CommentInteriors,
        close \in {<<"*", "/">>, <<>>},
        post \in {<<>>, <<"\n">>} }

\* short lines that hold a structural keyword, a pointer or a key
KeywordBuffers ==
    { <<"G", "R", "O", "U", "P", "\n">>,
      <<"O", "B", "J", "E", "C", "T", "\n">>,
      <<"a", "\n", "G", "R", "O", "U", "P", " ", "=", " ", "x", "\n">>,
      <<"^", "P", " ", "=", " ", "1", "\r", "\n">>,
      <<"K", "=">>,
      <<"K", "=", "\n", "b">>,
      <<>> }

CursorBuffers == CommentBuffers \cup KeywordBuffers

\* the arguments of jump: 0..MaxJump, and the MaxBelowTop largest numbers of
\* usize, each held as its value less 2^w
MaxBelowTop == 2

JumpArgs == (0..MaxJump) \cup { 0 - k : k \in 1..MaxBelowTop }

NoValue == [value_raw |-> <<>>, value_type |-> "Undetermined"]

NoResult == Ok(TRUE)

-----------------------------------------------------------------------------
(* A client of PvlReader: any call, in any order, on one reader *)

InitReader(buffers) ==
    /\ content \in buffers
    /\ pos = 0
    /\ alive = TRUE
    /\ lastOp = "new"
    /\ lastArg = 0
    /\ lastRes = NoResult
    /\ prePos = 0
    /\ pc = "idle"
    /\ out = <<>>
    /\ calls = <<>>
    /\ value = NoValue

\* a call of a &mut self method that returned r, r.pos being where it left
\* the cursor; a panic ends the reader
Call(op, arg, r) ==
    /\ alive
    /\ pc = "idle"
    /\ lastOp' = op
    /\ lastArg' = arg
    /\ lastRes' = [tag |-> r.tag, val |-> r.val]
    /\ prePos' = pos
    /\ pos' = r.pos
    /\ alive' = (r.tag # "Panic")
    /\ UNCHANGED <<content, pc, out, calls, value>>

\* a call of a &self method that returned r
Probe(op, arg, r) ==
    /\ alive
    /\ pc = "idle"
    /\ lastOp' = op
    /\ lastArg' = arg
    /\ lastRes' = r
    /\ prePos' = pos
    /\ alive' = (r.tag # "Panic")
    /\ UNCHANGED <<content, pos, pc, out, calls, value>>

CallNext ==
    /\ pos < Len(content) + MaxOverrun
    /\ Call("next", 0, next(content, pos))

CallJump ==
    \E n \in JumpArgs, overflow_checks \in BOOLEAN :
        Call("jump", n, jump_with(content, pos, n, overflow_checks))

CallSkipMultilineComment ==
    Call("skip_multiline_comment", 0, skip_multiline_comment(content, pos))

CallReadSymbol ==
    Call("read_symbol", 0, read_symbol(content, pos))

CallReadRemainingLine ==
    Call("read_remaining_line", 0, read_remaining_line(content, pos))

CallReadKeyValuePairRaw ==
    Call("read_key_value_pair_raw", 0, read_key_value_pair_raw(content, pos))

CallCharAt ==
    \E i \in 0..(Len(content) + MaxOverrun) :
        Probe("char_at", i, char_at(content, i))

CallCharAtPosPlusN ==
    \E n \in 0..MaxJump :
        Probe("char_at_pos_plus_n", n, char_at_pos_plus_n(content, pos, n))

CallCurrentChar == Probe("current_char", 0, current_char(content, pos))

CallPeekChar == Probe("peek_char", 0, peek_char(content, pos))

CallIsEof == Probe("is_eof", 0, Ok(is_eof(content, pos)))

CallIsAtLineStart == Probe("is_at_line_start", 0, is_at_line_start(content, pos))

CallIsAtMultilineCommentStart ==
    Probe("is_at_multiline_comment_start", 0,
          is_at_multiline_comment_start(content, pos))

CallIsAtMultilineCommentEnd ==
    Probe("is_at_multiline_comment_end", 0,
          is_at_multiline_comment_end(content, pos))

CallIsAtPointer == Probe("is_at_pointer", 0, is_at_pointer(content, pos))

CallIsAtEquals == Probe("is_at_equals", 0, is_at_equals(content, pos))

CallIsAtGroup == Probe("is_at_group", 0, is_at_group(content, pos))

CallIsAtObject == Probe("is_at_object", 0, is_at_object(content, pos))

CallIsAtValueLineContinuation ==
    Probe("is_at_value_line_continuation", 0,
          is_at_value_line_continuation(content, pos))

Init == InitReader(CursorBuffers)

Next ==
    \/ CallNext
    \/ CallJump
    \/ CallSkipMultilineComment
    \/ CallReadSymbol
    \/ CallReadRemainingLine
    \/ CallReadKeyValuePairRaw
    \/ CallCharAt
    \/ CallCharAtPosPlusN
    \/ CallCurrentChar
    \/ CallPeekChar
    \/ CallIsEof
    \/ CallIsAtLineStart
    \/ CallIsAtMultilineCommentStart
    \/ CallIsAtMultilineCommentEnd
    \/ CallIsAtPointer
    \/ CallIsAtEquals
    \/ CallIsAtGroup
    \/ CallIsAtObject
    \/ CallIsAtValueLineContinuation

Spec == Init /\ [][Next]_vars

-----------------------------------------------------------------------------
(* A client that reads lines: label texts of a value line, continuation     *)
(* lines and a last line, under each line terminator                        *)

LF == <<"\n">>
CR == <<"\r">>
CRLF == <<"\r", "\n">>

Terminators == {LF, CR, CRLF}

\* the lines of ls, each but the last followed by the terminator t
RECURSIVE JoinLines(_, _)
JoinLines(ls, t) ==
    IF ls = <<>> THEN <<>>
    ELSE IF Len(ls) = 1 THEN ls[1]
    ELSE ls[1] \o t \o JoinLines(Tail(ls), t)

\* K, blank space or none, =, blank space or none, ab
ValueLines ==
    { <<"K">> \o g1 \o <<"=">> \o g2 \o <<"a", "b">> :
        g1 \in {<<>>, <<" ">>}, g2 \in {<<>>, <<" ">>} }

\* a continuation line: the run of 37 spaces, then its text
ContinuationLines == { ContinuationPrefix \o <<x>> : x \in {"c", "d"} }

\* what may follow: nothing, a line whose blank run is one short of a
\* continuation's, or another value line
LastLines ==
    { <<>>,
      << Run(" ", ContinuationWidth - 1) \o <<"e">> >>,
      << <<"L", " ", "=", " ", "f">> >>,
      << ContinuationPrefix >> }

LineBuffers ==
    { JoinLines(<<vl>> \o cs \o last, t) \o (IF fin THEN t ELSE <<>>) :
        vl \in ValueLines,
        cs \in SeqsUpTo(ContinuationLines, MaxCont),
        last \in LastLines,
        t \in Terminators,
        fin \in BOOLEAN }

\* first lines for the symbol reader: keywords, pointers, blank lines, keys
SymbolLines ==
    { <<"G", "R", "O", "U", "P">>,
      <<"G", "R", "O", "U", "P", " ", "=", " ", "g">>,
      <<" ", "O", "B", "J", "E", "C", "T", " ">>,
      <<"O", "B", "J", "E", "C", "T", "=", "o">>,
      <<"^", "P", " ", "=", " ", "1">>,
      <<"^">>,
      <<>>,
      <<" ", " ">>,
      <<"G", "R", "O", "U", "P", "S">>,
      <<"K", " ", "^", "=", "1">> }

\* a first line and a second line of 36 blanks and a letter
SymbolBuffers ==
    { JoinLines(<<sl, Run(" ", ContinuationWidth - 1) \o <<"e">> >>, t)
          \o (IF fin THEN t ELSE <<>>) :
        sl \in SymbolLines,
        t \in Terminators,
        fin \in BOOLEAN }

InitRead == InitReader(LineBuffers \cup SymbolBuffers)

NextRead ==
    \/ CallNext
    \/ CallReadSymbol
    \/ CallReadRemainingLine
    \/ CallReadKeyValuePairRaw

SpecRead == InitRead /\ [][NextRead]_vars

-----------------------------------------------------------------------------
(* The driving loop of main, one action for each way round the loop *)

\* the most lines of a text given to main
MaxMainLines == 3

MainLines ==
    { <<"A", " ", "=", " ", "1">>,
      <<"B", " ", "=", " ", "2">>,
      <<"L", " ", "=", " ">> \o Run("x", ContinuationWidth),
      <<"/", "*", "a", "*", "/">>,
      ContinuationPrefix \o <<"c">> }

MainBuffers ==
    { JoinLines(ls, t) \o (IF fin THEN t ELSE <<>>) :
        ls \in SeqsUpTo(MainLines, MaxMainLines),
        t \in {LF, CRLF},
        fin \in BOOLEAN }

InitMain ==
    /\ content \in MainBuffers
    /\ pos = 0
    /\ alive = TRUE
    /\ lastOp = "new"
    /\ lastArg = 0
    /\ lastRes = NoResult
    /\ prePos = 0
    /\ pc = "loop"
    /\ out = <<>>
    /\ calls = <<>>
    /\ value = NoValue

\* what an iteration prints for the result r of its branch
Printed(op, r) ==
    IF r.tag # "Ok" THEN <<>>
    ELSE IF op = "skip_multiline_comment"
         THEN << [kind |-> "COMMENT", text |-> r.val] >>
    ELSE IF op = "read_key_value_pair_raw"
         THEN << [kind |-> "KVP", key |-> r.val.key, value |-> r.val.value] >>
    ELSE <<>>

\* the rest of an iteration once its branch returned r: main unwraps the
\* comment skipper's result and matches the key-value reader's, so the first
\* aborts on an Err too; otherwise reader.next() ends the iteration, its
\* result dropped
EndIteration(op, r) ==
    /\ lastOp' = op
    /\ lastArg' = 0
    /\ prePos' = pos
    /\ IF r.tag = "Panic" \/ (op = "skip_multiline_comment" /\ r.tag # "Ok")
       THEN /\ lastRes' = Panicked
            /\ alive' = FALSE
            /\ pos' = r.pos
            /\ out' = out
       ELSE /\ lastRes' = [tag |-> r.tag, val |-> r.val]
            /\ alive' = TRUE
            /\ pos' = next(content, r.pos).pos
            /\ out' = out \o Printed(op, r)
    /\ UNCHANGED <<content, pc, value>>

InLoop == alive /\ pc = "loop" /\ ~is_eof(content, pos)

\* if reader.is_at_multiline_comment_start().unwrap()
MainComment ==
    /\ InLoop
    /\ is_at_multiline_comment_start(content, pos) = Ok(TRUE)
    /\ EndIteration("skip_multiline_comment", skip_multiline_comment(content, pos))
    /\ UNCHANGED calls

\* else if reader.is_at_line_start().unwrap()
MainKeyValue ==
    /\ InLoop
    /\ is_at_multiline_comment_start(content, pos) = Ok(FALSE)
    /\ is_at_line_start(content, pos) = Ok(TRUE)
    /\ EndIteration("read_key_value_pair_raw", read_key_value_pair_raw(content, pos))
    /\ calls' = Append(calls, pos)

\* neither branch
MainOther ==
    /\ InLoop
    /\ is_at_multiline_comment_start(content, pos) = Ok(FALSE)
    /\ is_at_line_start(content, pos) = Ok(FALSE)
    /\ EndIteration("next", OkAt(TRUE, pos))
    /\ UNCHANGED calls

\* while !reader.is_eof()
MainExit ==
    /\ alive
    /\ pc = "loop"
    /\ is_eof(content, pos)
    /\ pc' = "done"
    /\ UNCHANGED <<content, pos, alive, lastOp, lastArg, lastRes, prePos,
                   out, calls, value>>

NextMain == MainComment \/ MainKeyValue \/ MainOther \/ MainExit

SpecMain == InitMain /\ [][NextMain]_vars

-----------------------------------------------------------------------------
(* Values: construction and the typed accessors *)

\* the longest raw text drawn over RawAlphabet
MaxRawLen == 4

\* the most elements of an array text
MaxElems == 3

RawAlphabet == {"-", "1", "5", "0", "#", ".", "a", " "}

ArrayElements == { <<"1">>, <<"2">>, <<"3">>, <<"1", "2">>, <<"a", "b">> }

ArrayTexts ==
    { <<"(">> \o JoinLines(es, <<",">>) \o <<")">> :
        es \in SeqsUpTo(ArrayElements, MaxElems) }

\* longer texts of each kind: bit masks, floats, a time, quoted texts, a flag,
\* integers at the limits of the integer types
ExampleTexts ==
    { <<"2", "#", "0", "1", "0", "1", "#">>,
      <<"1", "2", "#", "0", "1", "#">>,
      <<"3", ".", "1", "4">>,
      <<"1", "2", ":", "3", "0">>,
      <<"\"", "T", "R", "U", "E", "\"">>,
      <<"\"", "F", "A", "L", "S", "E", "\"">>,
      <<"\"", "a", " ", "s", "t", "r", "i", "n", "g", "\"">>,
      <<"T", "R", "U", "E">>,
      <<"1", ".", "5", "E", "1">>,
      <<"6", "5", "5", "3", "6">>,
      <<"-", "3", "2", "7", "6", "8">>,
      <<"4", "2", "9", "4", "9", "6", "7", "2", "9", "6">>,
      <<"-", "2", "1", "4", "7", "4", "8", "3", "6", "4", "8">>,
      <<"1", "8", "4", "4", "6", "7", "4", "4", "0", "7",
        "3", "7", "0", "9", "5", "5", "1", "6", "1", "6">>,
      <<"9", "2", "2", "3", "3", "7", "2", "0", "3", "6",
        "8", "5", "4", "7", "7", "5", "8", "0", "7">> }

\* the most characters of a text of quotes, letters and line feeds
MaxQuotedLen == 3

QuotedTexts == SeqsUpTo({"\"", "a", "\n"}, MaxQuotedLen)

RawTexts ==
    SeqsUpTo(RawAlphabet, MaxRawLen) \cup ArrayTexts \cup ExampleTexts
        \cup QuotedTexts

InitValue ==
    /\ \E raw \in RawTexts : value = new_value(raw)
    /\ content = <<>>
    /\ pos = 0
    /\ alive = TRUE
    /\ lastOp = "new"
    /\ lastArg = 0
    /\ lastRes = NoResult
    /\ prePos = 0
    /\ pc = "idle"
    /\ out = <<>>
    /\ calls = <<>>

\* a call of an accessor of the Value that returned r
Access(op, r) ==
    /\ lastOp' = op
    /\ lastRes' = r
    /\ UNCHANGED <<content, pos, alive, lastArg, prePos, pc, out, calls, value>>

CallParseArray == Access("parse_array", parse_array(value))

CallParseF32 == Access("parse_f32", parse_f32(value))

CallParseF64 == Access("parse_f64", parse_f64(value))

CallParseU8 == Access("parse_u8", parse_u8(value))

CallParseU16 == Access("parse_u16", parse_u16(value))

CallParseU32 == Access("parse_u32", parse_u32(value))

CallParseU64 == Access("parse_u64", parse_u64(value))

CallParseI8 == Access("parse_i8", parse_i8(value))

CallParseI16 == Access("parse_i16", parse_i16(value))

CallParseI32 == Access("parse_i32", parse_i32(value))

CallParseI64 == Access("parse_i64", parse_i64(value))

CallParseBool == Access("parse_bool", parse_bool(value))

CallParseString == Access("parse_string", parse_string(value))

CallParseFlag == Access("parse_flag", parse_flag(value))

NextValue ==
    \/ CallParseArray
    \/ CallParseF32
    \/ CallParseF64
    \/ CallParseU8
    \/ CallParseU16
    \/ CallParseU32
    \/ CallParseU64
    \/ CallParseI8
    \/ CallParseI16
    \/ CallParseI32
    \/ CallParseI64
    \/ CallParseBool
    \/ CallParseString
    \/ CallParseFlag

SpecValue == InitValue /\ [][NextValue]_vars

-----------------------------------------------------------------------------
(* The vocabulary of the properties: lines, key-value lines, comments,      *)
(* stated on the text alone                                                 *)

\* the offset of the first carriage return or line feed at or after p, or
\* the length of the text
RECURSIVE LineEnd(_, _)
LineEnd(c, p) ==
    IF p >= Len(c) THEN Len(c)
    ELSE IF c[p + 1] \in {"\r", "\n"} THEN p
    ELSE LineEnd(c, p + 1)

\* the line that starts at offset p, without its terminator
LineText(c, p) == SubSeq(c, p + 1, LineEnd(c, p))

\* the line that starts at p ends with a terminator
Terminated(c, p) == LineEnd(c, p) < Len(c)

\* the offset after the terminator (CR, LF or CR LF) of the line at p
NextLineStart(c, p) ==
    LET e == LineEnd(c, p)
    IN  IF e >= Len(c) THEN Len(c)
        ELSE IF c[e + 1] = "\r" /\ e + 1 < Len(c) /\ c[e + 2] = "\n" THEN e + 2
        ELSE e + 1

AtLineStart(c, p) == p = 0 \/ (p <= Len(c) /\ c[p] \in {"\r", "\n"})

BeginsWithBlankRun(line) ==
    /\ Len(line) >= ContinuationWidth
    /\ SubSeq(line, 1, ContinuationWidth) = ContinuationPrefix

IsContinuationLine(c, p) == p < Len(c) /\ BeginsWithBlankRun(LineText(c, p))

EqualsIn(line) == {i \in 1..Len(line) : line[i] = "="}

KeyOf(line) ==
    LET e == CHOOSE i \in EqualsIn(line) : TRUE
    IN  Trim(SubSeq(line, 1, e - 1))

ValueOf(line) ==
    LET e == CHOOSE i \in EqualsIn(line) : TRUE
    IN  Trim(SubSeq(line, e + 1, Len(line)))

\* KEY, blank space, =, blank space, V: one '=', a name that is no pointer
\* and no structural keyword before it, a non-empty text after it
IsKeyValueLine(line) ==
    /\ Cardinality(EqualsIn(line)) = 1
    /\ KeyOf(line) # <<>>
    /\ KeyOf(line)[1] # "^"
    /\ KeyOf(line) \notin {<<"G", "R", "O", "U", "P">>, <<"O", "B", "J", "E", "C", "T">>}
    /\ ValueOf(line) # <<>>

\* the starts of the run of continuation lines that begins at offset q
RECURSIVE ContinuationRun(_, _)
ContinuationRun(c, q) ==
    IF IsContinuationLine(c, q)
    THEN <<q>> \o ContinuationRun(c, NextLineStart(c, q))
    ELSE <<>>

RECURSIVE TrimmedLines(_, _)
TrimmedLines(c, starts) ==
    IF starts = <<>> THEN <<>>
    ELSE Trim(LineText(c, Head(starts))) \o TrimmedLines(c, Tail(starts))

\* the two bytes at offset p are / and *
OpensAt(c, p) == p + 1 < Len(c) /\ c[p + 1] = "/" /\ c[p + 2] = "*"

\* the offsets after the opening at p where * and / stand
Closings(c, p) ==
    {q \in (p + 2)..(Len(c) - 2) : c[q + 1] = "*" /\ c[q + 2] = "/"}

FirstClosing(c, p) ==
    CHOOSE q \in Closings(c, p) : \A r \in Closings(c, p) : q <= r

\* the bytes strictly between the opening at p and its first closing
Interior(c, p) == SubSeq(c, p + 3, FirstClosing(c, p))

\* the starts of the lines of a text whose lines all end with a line feed
LineStarts(c) == {0} \cup {i \in 1..(Len(c) - 1) : c[i] = "\n"}

\* the members of a set of numbers in increasing order
RECURSIVE Ascending(_)
Ascending(S) ==
    IF S = {} THEN <<>>
    ELSE LET m == CHOOSE x \in S : \A y \in S : x <= y
         IN  <<m>> \o Ascending(S \ {m})

IsPrefix(s, t) == Len(s) <= Len(t) /\ s = SubSeq(t, 1, Len(s))

\* a text made only of line-feed-terminated KEY = V lines
KeyValueText(c) ==
    /\ c # <<>>
    /\ c[Len(c)] = "\n"
    /\ \A i \in 1..Len(c) : c[i] # "\r"
    /\ \A p \in LineStarts(c) : IsKeyValueLine(LineText(c, p))

\* an optional minus sign, then one or more decimal digits, nothing else
IsIntegerToken(s) ==
    \E a \in {0, 1} :
        /\ Len(s) > a
        /\ a = 1 => s[1] = "-"
        /\ AllIn(s, a + 1, Len(s), Digits)

OnlyDigits(s) == s # <<>> /\ AllIn(s, 1, Len(s), Digits)

\* (e1,...,en): the elements are the inner text split on its commas
IsArrayText(s) == Len(s) >= 3 /\ s[1] = "(" /\ s[Len(s)] = ")"

ArrayElementsOf(s) == split_comma(SubSeq(s, 2, Len(s) - 1), <<>>)

-----------------------------------------------------------------------------
(* The properties *)

\* C1: after any sequence of cursor operations on any buffer, the position
\* satisfies 0 <= pos <= length of the buffer.
C1_PositionInRange == alive => (0 <= pos /\ pos <= Len(content))

ProbeOps ==
    {"char_at", "char_at_pos_plus_n", "current_char", "peek_char",
     "is_at_line_start", "is_at_pointer", "is_at_equals",
     "is_at_value_line_continuation", "is_at_group", "is_at_object"}

\* the offset a character probe reads
ProbedOffset ==
    CASE lastOp = "char_at" -> lastArg
      [] lastOp = "char_at_pos_plus_n" -> prePos + lastArg
      [] lastOp = "current_char" -> prePos
      [] lastOp = "peek_char" -> prePos + 1

\* C2: at every reachable cursor position, positions at or past the end of
\* the buffer included, no position probe aborts; a probe fails only with
\* Eof; and a character probe answers Eof at or beyond the buffer length and
\* the buffer's own character below it.
C2_ProbesSignalEof ==
    lastOp \in ProbeOps =>
        /\ lastRes.tag # "Panic"
        /\ lastRes.tag = "Err" => lastRes.val = "Eof"
        /\ lastOp \in {"char_at", "char_at_pos_plus_n", "current_char", "peek_char"} =>
               IF ProbedOffset >= Len(content)
               THEN lastRes.tag = "Err"
               ELSE lastRes.tag = "Ok" /\ lastRes.val = content[ProbedOffset + 1]

\* C3: called at the start of a line KEY blanks = blanks V that is followed
\* by end of input or by a line that is no continuation line,
\* read_key_value_pair_raw returns Ok with the symbol Key(KEY) and the Value
\* whose raw text is V trimmed and whose type is V's classification.
C3_KeyValueLineRead ==
    ( /\ lastOp = "read_key_value_pair_raw"
      /\ AtLineStart(content, prePos)
      /\ IsKeyValueLine(LineText(content, prePos))
      /\ ~IsContinuationLine(content, NextLineStart(content, prePos)) )
    => /\ lastRes.tag = "Ok"
       /\ lastRes.val.key =
              [kind |-> "Key", name |-> KeyOf(LineText(content, prePos))]
       /\ lastRes.val.value =
              [value_raw |-> ValueOf(LineText(content, prePos)),
               value_type |-> determine_type(ValueOf(LineText(content, prePos)))]

\* C4: on a text made only of line-feed-terminated KEY = V lines, the driving
\* loop calls the key-value scan step once at the start of each line, in
\* input order and skipping none, and when it stops it has produced one entry
\* for each line.
C4_EveryLineScannedOnce ==
    KeyValueText(content) =>
        /\ IsPrefix(calls, Ascending(LineStarts(content)))
        /\ pc = "done" =>
               /\ calls = Ascending(LineStarts(content))
               /\ Len(out) = Cardinality(LineStarts(content))

\* C5: a failing key-value read, whatever its error (an Eof from the
\* lookahead near the end of the buffer included), comes back to the driving
\* loop as a value, and the scan is never aborted.
C5_FailedReadIsSkipped ==
    /\ alive
    /\ lastOp = "read_key_value_pair_raw" => lastRes.tag \in {"Ok", "Err"}

\* C6: called at an opening that a closing follows, skip_multiline_comment
\* returns exactly the bytes strictly between the opening and the first
\* closing after it, unchanged.
C6_CommentInterior ==
    ( /\ lastOp = "skip_multiline_comment"
      /\ OpensAt(content, prePos)
      /\ Closings(content, prePos) # {} )
    => /\ lastRes.tag = "Ok"
       /\ lastRes.val = Interior(content, prePos)

\* C7: when a value line is followed by a run of one or more continuation
\* lines, every line of them ending with LF, CR or CR LF,
\* read_key_value_pair_raw returns the Value whose raw text is the trimmed
\* remainder of the value line followed by the trimmed text of each
\* continuation line, in line order, and leaves the cursor at the start of
\* the first line after the run.
C7_ContinuationStitched ==
    LET line == LineText(content, prePos)
        run == ContinuationRun(content, NextLineStart(content, prePos))
    IN  ( /\ lastOp = "read_key_value_pair_raw"
          /\ AtLineStart(content, prePos)
          /\ IsKeyValueLine(line)
          /\ Terminated(content, prePos)
          /\ run # <<>>
          /\ \A k \in 1..Len(run) : Terminated(content, run[k]) )
        => /\ lastRes.tag = "Ok"
           /\ lastRes.val.value.value_raw =
                  ValueOf(line) \o TrimmedLines(content, run)
           /\ pos = NextLineStart(content, run[Len(run)])

\* C8: parse_array of an Array Value with raw text (e1,...,en) returns n
\* Values whose raw texts are e1..en, the inner text split on its commas, and
\* whose types are the classification of each element.
C8_ArrayElements ==
    ( /\ lastOp = "parse_array"
      /\ value.value_type = "Array"
      /\ IsArrayText(value.value_raw) )
    => /\ lastRes.tag = "Ok"
       /\ lastRes.val =
              [k \in 1..Len(ArrayElementsOf(value.value_raw)) |->
                  [value_raw |-> ArrayElementsOf(value.value_raw)[k],
                   value_type |->
                       determine_type(ArrayElementsOf(value.value_raw)[k])]]

\* C9: every raw text the bit-mask rule accepts is classified BitMask, never
\* Integer or another type of earlier priority; and no raw text of decimal
\* digits only is classified BitMask.
C9_BitMaskNotInteger ==
    /\ BITMASK_DETERMINATE(value.value_raw) => value.value_type = "BitMask"
    /\ OnlyDigits(value.value_raw) => value.value_type # "BitMask"

\* C10: a raw text is classified Integer exactly when it is an optional minus
\* sign followed by one or more decimal digits and nothing else.
C10_IntegerExactly ==
    value.value_type = "Integer" <=> IsIntegerToken(value.value_raw)

QuotedTrue == <<"\"", "T", "R", "U", "E", "\"">>

QuotedFalse == <<"\"", "F", "A", "L", "S", "E", "\"">>

\* s begins with a double quote and ends with a double quote
BeginsAndEndsWithQuote(s) ==
    /\ Len(s) >= 1
    /\ s[1] = "\""
    /\ s[Len(s)] = "\""

\* s is an opening quote, characters other than a line feed, a closing quote
IsQuotedSpan(s) ==
    /\ Len(s) >= 2
    /\ BeginsAndEndsWithQuote(s)
    /\ \A k \in 2..(Len(s) - 1) : s[k] # "\n"

\* C11 as stated: the raw texts "TRUE" and "FALSE" (quotes included) are
\* classified Bool, never String, and every other raw text that begins and
\* ends with a double quote is classified String.
C11_EveryQuotedTextIsString ==
    /\ value.value_raw \in {QuotedTrue, QuotedFalse} =>
           value.value_type = "Bool"
    /\ ( /\ BeginsAndEndsWithQuote(value.value_raw)
         /\ value.value_raw \notin {QuotedTrue, QuotedFalse} )
       => value.value_type = "String"

\* C11, amended: the raw texts "TRUE" and "FALSE" (quotes included) are
\* classified Bool, never String; every other raw text of two or more
\* characters that begins and ends with a double quote and has no line feed
\* between the two is classified String.
C11_QuotedSpanIsString ==
    /\ value.value_raw \in {QuotedTrue, QuotedFalse} =>
           value.value_type = "Bool"
    /\ ( /\ IsQuotedSpan(value.value_raw)
         /\ value.value_raw \notin {QuotedTrue, QuotedFalse} )
       => value.value_type = "String"

C11_Witness ==
    /\ lastOp = "new"
    /\ value.value_raw = QuotedTrue
    /\ value.value_type = "Bool"

\* the type each typed accessor requires
RequiredType(op) ==
    CASE op \in {"parse_f32", "parse_f64"} -> "Float"
      [] op \in {"parse_u8", "parse_u16", "parse_u32", "parse_u64",
                 "parse_i8", "parse_i16", "parse_i32", "parse_i64"} -> "Integer"
      [] op = "parse_bool" -> "Bool"
      [] op = "parse_array" -> "Array"
      [] op = "parse_string" -> "String"
      [] op = "parse_flag" -> "Flag"

TypedAccessors ==
    {"parse_f32", "parse_f64", "parse_u8", "parse_u16", "parse_u32",
     "parse_u64", "parse_i8", "parse_i16", "parse_i32", "parse_i64",
     "parse_bool", "parse_array", "parse_string", "parse_flag"}

\* the accessors that convert the raw text
ConvertingAccessors ==
    TypedAccessors \ {"parse_array", "parse_string", "parse_flag"}

\* C12: a typed accessor called on a Value whose classified type is not the
\* type it requires returns InvalidType, never Ok and never
\* ValueTypeParseError; ValueTypeParseError is returned only by a converting
\* accessor on a Value of the type it requires.
C12_MismatchIsInvalidType ==
    lastOp \in TypedAccessors =>
        /\ value.value_type # RequiredType(lastOp) =>
               (lastRes.tag = "Err" /\ lastRes.val = "InvalidType")
        /\ (lastRes.tag = "Err" /\ lastRes.val = "ValueTypeParseError") =>
               /\ value.value_type = RequiredType(lastOp)
               /\ lastOp \in ConvertingAccessors

C12_Witness ==
    /\ lastOp = "parse_u32"
    /\ value.value_raw = <<"3", ".", "1", "4">>
    /\ value.value_type = "Float"
    /\ lastRes.tag = "Err"
    /\ lastRes.val = "InvalidType"

\* C13: parse_bool of the Value built from the raw text "TRUE" returns
\* Ok(true), and of the Value built from "FALSE" returns Ok(false).
C13_ParseBoolConverts ==
    lastOp = "parse_bool" =>
        /\ value.value_raw = QuotedTrue =>
               (lastRes.tag = "Ok" /\ lastRes.val = TRUE)
        /\ value.value_raw = QuotedFalse =>
               (lastRes.tag = "Ok" /\ lastRes.val = FALSE)

\* the offset of the first '=', carriage return or line feed at or after p,
\* the length of the buffer if there is none
RECURSIVE SymbolStop(_, _)
SymbolStop(c, p) ==
    IF p >= Len(c) THEN Len(c)
    ELSE IF c[p + 1] \in {"=", "\r", "\n"} THEN p
    ELSE SymbolStop(c, p + 1)

\* the trimmed text between p and the symbol stop
SymbolText(c, p) == Trim(SubSeq(c, p + 1, SymbolStop(c, p)))

\* the symbol of a trimmed text, in the order of the claim
SymbolOf(t) ==
    IF t = <<>> THEN [kind |-> "BlankLine", name |-> <<>>]
    ELSE IF Head(t) = "^" THEN [kind |-> "Pointer", name |-> t]
    ELSE IF t = <<"G", "R", "O", "U", "P">> THEN [kind |-> "Group", name |-> <<>>]
    ELSE IF t = <<"O", "B", "J", "E", "C", "T">> THEN [kind |-> "Object", name |-> <<>>]
    ELSE [kind |-> "Key", name |-> t]

\* C14: whenever read_symbol returns Ok, its result is the symbol of the
\* trimmed text T between the call position and the first following '=',
\* carriage return, line feed or end of input (T empty: BlankLine; T starting
\* with '^': Pointer(T), caret retained; T = GROUP: Group; T = OBJECT: Object;
\* otherwise Key(T)), and the cursor rests on that '=' or terminator (or at
\* the end of input), which it has not consumed.
C14_SymbolOfTrimmedText ==
    (lastOp = "read_symbol" /\ lastRes.tag = "Ok") =>
        /\ lastRes.val = SymbolOf(SymbolText(content, prePos))
        /\ pos = SymbolStop(content, prePos)

C14_Witness ==
    /\ lastOp = "read_symbol"
    /\ lastRes.tag = "Ok"
    /\ lastRes.val = [kind |-> "Pointer", name |-> <<"^", "P">>]
    /\ pos < Len(content)
    /\ content[pos + 1] = "="

PreconditionOps == {"read_symbol", "read_key_value_pair_raw"}

\* C15: read_symbol and read_key_value_pair_raw called at a reachable
\* position that is not a line start return the Programming error, called at
\* the start of a continuation line return the Syntax error, and in neither
\* case abort or move the cursor.
C15_PreconditionErrors ==
    lastOp \in PreconditionOps =>
        /\ ~AtLineStart(content, prePos) =>
               /\ lastRes.tag = "Err"
               /\ lastRes.val = "Programming"
               /\ pos = prePos
        /\ (AtLineStart(content, prePos) /\ IsContinuationLine(content, prePos)) =>
               /\ lastRes.tag = "Err"
               /\ lastRes.val = "Syntax"
               /\ pos = prePos

\* C16: comments do not nest: called at an opening that a closing follows,
\* skip_multiline_comment ends the span at the first closing after the
\* opening, whatever openings stand in between, and leaves the cursor just
\* after that closing (the offset of its '*' plus two).
C16_FirstClosingEndsSpan ==
    ( /\ lastOp = "skip_multiline_comment"
      /\ OpensAt(content, prePos)
      /\ Closings(content, prePos) # {} )
    => /\ lastRes.tag # "Panic"
       /\ pos = FirstClosing(content, prePos) + 2

\* the position min(p + n, length) for a jump of n from p; n < 0 stands for a
\* number near the top of usize
JumpTarget(c, p, n) ==
    IF n < 0 \/ p + n >= Len(c) THEN Len(c) ELSE p + n

\* C17: jump(n) called at a position p below the length of the buffer, for
\* any n >= 0, returns Ok and sets the position to min(p + n, length), never
\* past the length; called at p >= length it returns Eof and leaves the
\* position unchanged.
C17_JumpClamped ==
    lastOp = "jump" =>
        IF prePos < Len(content)
        THEN /\ lastRes.tag = "Ok"
             /\ pos = JumpTarget(content, prePos, lastArg)
             /\ pos <= Len(content)
        ELSE /\ lastRes.tag = "Err"
             /\ lastRes.val = "Eof"
             /\ pos = prePos

\* C18: skip_multiline_comment called where the two bytes at the cursor are
\* not an opening, at or past the end of the input included, returns
\* CommentIsntComment and leaves the cursor where it was.
C18_NotAtOpening ==
    (lastOp = "skip_multiline_comment" /\ ~OpensAt(content, prePos)) =>
        /\ lastRes.tag = "Err"
        /\ lastRes.val = "CommentIsntComment"
        /\ pos = prePos

C18_Witness ==
    /\ lastOp = "skip_multiline_comment"
    /\ Len(content) > 0
    /\ prePos >= Len(content)
    /\ lastRes.tag = "Err"
    /\ lastRes.val = "CommentIsntComment"
    /\ pos = prePos

\* the characters of the line that holds offset p, from p to its end
RestOfLine(c, p) == { c[k] : k \in (p + 1)..LineEnd(c, p) }

\* C19: read_remaining_line is bounded by the current line: called at any
\* position p of any buffer (lines with '=', with '=' just before the
\* terminator, or with '=' as the last byte of the buffer included) it
\* returns without aborting, the cursor is then on the first carriage return
\* or line feed at or after p (or at the end of input), and the text returned
\* holds no character of a later line.
C19_RemainingLineBounded ==
    (lastOp = "read_remaining_line" /\ prePos <= Len(content)) =>
        /\ lastRes.tag = "Ok"
        /\ pos = LineEnd(content, prePos)
        /\ \A k \in 1..Len(lastRes.val) :
               lastRes.val[k] \in RestOfLine(content, prePos)

\* C20: skip_multiline_comment called at an opening, a closing after it or
\* not, returns a value or an error to its caller and never aborts by
\* running past the end of the buffer.
C20_SkipReturns ==
    (lastOp = "skip_multiline_comment" /\ OpensAt(content, prePos)) =>
        lastRes.tag \in {"Ok", "Err"}

====
